---- MODULE Spec2Model ----
(***************************************************************************)
(* Model of simulador_smart_office.py: the time grid, the work-hour and    *)
(* night classifiers, the three per-room sensor models, and main's         *)
(* assembly, sort and write.                                               *)
(*                                                                         *)
(* Instants are minutes since a Monday 00:00.  Sensor values are fixed     *)
(* point, in thousandths (22.5 degrees is 22500, 500 lux is 500000, the    *)
(* probability 0.85 is 850).  A standard normal deviate is in hundredths   *)
(* of a standard deviation.                                                *)
(***************************************************************************)
EXTENDS Integers, Sequences, FiniteSets, TLC

VARIABLES
  pc,          \* position of the run inside main / simulate_for_room
  run,         \* which invocation of the program this is (1 or 2)
  start_arg,   \* main's start parameter: None or an instant
  start_at,       \* main's start once resolved
  now,         \* the last reading of datetime.now() (None: never read)
  days_arg,    \* the day count handed to generate_time_index
  time_index,  \* the grid built by generate_time_index
  room,        \* position in main's room loop
  rng,         \* state of the room's generator
  temp,        \* simulate_for_room's temp list
  lux,         \* simulate_for_room's lux list
  occ,         \* simulate_for_room's occ list
  frames,      \* main's frames list
  df,          \* main's df
  csv,         \* content of the output file
  prev,        \* history: the previous invocation's start, and the file ToCsv replaced
  draw_log,    \* history: the draws of the current room, in call order
  sample       \* one evaluation of a loop body on chosen inputs

vars == <<pc, run, start_arg, start_at, now, days_arg, time_index, room, rng, temp,
          lux, occ, frames, df, csv, prev, draw_log, sample>>

\* Python's None where an instant is expected
None == -1

\* no output file, and no loop body evaluated yet
NoFile == [header |-> <<>>, rows |-> <<>>]
NoSample == [kind |-> "none"]
NoPrev == [start_at |-> None, csv |-> NoFile]

----------------------------------------------------------------------------
(* Units and calendar *)

Scale == 10 * 100          \* thousandths
ZScale == 10 * 10          \* hundredths of a standard deviation
MinutesPerHour == 60
MinutesPerDay == 24 * 60
WeekMinutes == 7 * MinutesPerDay

weekday(ts) == (ts \div MinutesPerDay) % 7
hour(ts) == (ts % MinutesPerDay) \div MinutesPerHour
minute(ts) == ts % MinutesPerHour

Max(a, b) == IF a >= b THEN a ELSE b
Min(a, b) == IF a <= b THEN a ELSE b
Abs(a) == IF a < 0 THEN -a ELSE a

----------------------------------------------------------------------------
(* generate_time_index *)

FreqMinutes == 15
DaysOfRun == 7

\* pd.date_range(start, end, freq): start, start + freq, ... up to end, both ends
date_range_closed(start, end, freq) ==
  IF end < start THEN <<>>
  ELSE [k \in 1..((end - start) \div freq + 1) |-> start + (k - 1) * freq]

\* inclusive="left": the entries equal to end are dropped
\* mutant: inclusive="both", the end instant is kept
inclusive_both(idx, end) == idx

inclusive_left(idx, end) == SelectSeq(idx, LAMBDA t : t # end)

generate_time_index(start, days) ==
  LET end == start + days * MinutesPerDay
  IN  inclusive_left(date_range_closed(start, end, FreqMinutes), end)

----------------------------------------------------------------------------
(* classifiers *)

is_work_hour(ts) == (weekday(ts) < 5) /\ (8 <= hour(ts) /\ hour(ts) < 18)

is_night(ts) == (hour(ts) >= 22) \/ (hour(ts) < 6)

----------------------------------------------------------------------------
(* np.sin, np.round and float conversion, in fixed point *)

SinScale == 100 * 100      \* np.sin works in ten-thousandths
Pi == 31416                \* np.pi, in ten-thousandths
HalfPi == 15708            \* np.pi / 2

\* sine of y, 0 <= y <= pi/2: the series up to y^9, in Horner form
sin_series(y) ==
  LET y2 == (y * y) \div SinScale
      t4 == SinScale - y2 \div 72
      t3 == SinScale - ((y2 * t4) \div SinScale) \div 42
      t2 == SinScale - ((y2 * t3) \div SinScale) \div 20
      t1 == SinScale - ((y2 * t2) \div SinScale) \div 6
  IN  (y * t1) \div SinScale

\* np.sin(x) for -pi/2 <= x <= 3 pi/2
np_sin(x) ==
  LET y == IF x > HalfPi THEN Pi - x ELSE x
  IN  IF y < 0 THEN -sin_series(-y) ELSE sin_series(y)

\* np.round(v, decimals): to the nearest multiple of unit, ties to even
np_round(v, unit) ==
  LET q == v \div unit
      r == v % unit
  IN  IF 2 * r < unit THEN q * unit
      ELSE IF 2 * r > unit THEN (q + 1) * unit
      ELSE IF q % 2 = 0 THEN q * unit ELSE (q + 1) * unit

Round2 == Scale \div 100   \* np.round(., 2): hundredths
Round1 == Scale \div 10    \* np.round(., 1): tenths

\* int -> float64 (what pd.concat does to the occ column beside float columns)
as_float(n) == n * Scale

----------------------------------------------------------------------------
(* the room's generator: np.random.default_rng(seed), rng.normal, rng.random *)

RngModulus == 65536
RngMul == 25173
RngInc == 13849

\* mutant: the generator is seeded from the invocation, not from the seed alone
default_rng_unseeded(seed) == (seed + 7919 * run) % RngModulus

default_rng(seed) == seed % RngModulus

rng_advance(s) == (RngMul * s + RngInc) % RngModulus

RECURSIVE rng_advance_n(_, _)
rng_advance_n(s, n) == IF n = 0 THEN s ELSE rng_advance_n(rng_advance(s), n - 1)

\* the standard normal deviate a generator state yields, in hundredths
ZTable == <<-186, -132, -101, -78, -58, -40, -24, -8,
            8, 24, 40, 58, 78, 101, 132, 186>>
std_normal_of(s) == ZTable[(s * Len(ZTable)) \div RngModulus + 1]

\* the uniform [0, 1) number a generator state yields, in thousandths
uniform_of(s) == (s * Scale) \div RngModulus

\* what the next n calls on the generator return: z if the call is
\* rng.normal, u if it is rng.random
draws_ahead(s, n) ==
  [k \in 1..n |-> [z |-> std_normal_of(rng_advance_n(s, k)),
                   u |-> uniform_of(rng_advance_n(s, k))]]

\* rng.normal(0, sigma) given the standard deviate z
normal(z, sigma) == (z * sigma) \div ZScale

----------------------------------------------------------------------------
(* bodies of the three loops of simulate_for_room.  d is what the calls   *)
(* on the generator return, in call order; used is how many were made.    *)

TempLow == 17000
TempHigh == 28000

daily_base(ts) ==
  LET rad == ((hour(ts) * 60 + minute(ts)) * 2 * Pi) \div (24 * 60)
      s == np_sin(rad - HalfPi)
  IN  (25 * s * Scale) \div (10 * SinScale) + 22500

\* mutant: the clamp loses its upper limit
temp_clamp_no_upper(val) == Max(TempLow, val)

temp_clamp(val) == Max(TempLow, Min(TempHigh, val))

temp_body(ts, d) ==
  LET w == is_work_hour(ts)
      n1 == IF w THEN 1 ELSE 0
      daily1 == IF w THEN daily_base(ts) + (600 + normal(d[1].z, 200))
                     ELSE daily_base(ts)
      ng == is_night(ts)
      n2 == IF ng THEN n1 + 1 ELSE n1
      daily2 == IF ng THEN daily1 - (1000 + normal(d[n1 + 1].z, 200))
                      ELSE daily1
      val == daily2 + normal(d[n2 + 1].z, 300)
  IN  [val |-> temp_clamp(val), used |-> n2 + 1]

lux_base(ts, d) ==
  IF is_night(ts) THEN [val |-> 0, used |-> 0]
  ELSE IF is_work_hour(ts)
       THEN [val |-> 500000 + normal(d[1].z, 60000), used |-> 1]
       ELSE [val |-> Max(0, 50000 + normal(d[1].z, 30000)), used |-> 1]

\* mutant: the final floor at 0 is dropped
lux_no_floor(base) == base

lux_floor(base) == Max(0, base)

lux_body(ts, d) ==
  LET b == lux_base(ts, d)
  IN  [val |-> lux_floor(b.val), used |-> b.used]

\* mutant: the evening transition hour runs one hour late
occ_schedule_late(ts) ==
  IF weekday(ts) < 5
  THEN IF 8 <= hour(ts) /\ hour(ts) < 18 THEN 850
       ELSE IF (7 <= hour(ts) /\ hour(ts) < 8) \/ (18 <= hour(ts) /\ hour(ts) <= 19)
            THEN 350
            ELSE 50
  ELSE 30

occ_schedule(ts) ==
  IF weekday(ts) < 5
  THEN IF 8 <= hour(ts) /\ hour(ts) < 18 THEN 850
       ELSE IF (7 <= hour(ts) /\ hour(ts) < 8) \/ (18 <= hour(ts) /\ hour(ts) < 19)
            THEN 350
            ELSE 50
  ELSE 30

occ_spike_window(ts) == weekday(ts) >= 5 /\ 10 <= hour(ts) /\ hour(ts) < 14

occ_prob(ts, d) ==
  IF occ_spike_window(ts)
  THEN [p |-> IF d[1].u < 60 THEN 700 ELSE occ_schedule(ts), used |-> 1]
  ELSE [p |-> occ_schedule(ts), used |-> 0]

\* mutant: the probability is appended instead of the outcome of the trial
occ_body_appends_p(ts, d) ==
  LET r == occ_prob(ts, d)
  IN  [val |-> r.p, used |-> r.used + 1]

occ_body(ts, d) ==
  LET r == occ_prob(ts, d)
  IN  [val |-> IF d[r.used + 1].u < r.p THEN 1 ELSE 0, used |-> r.used + 1]

----------------------------------------------------------------------------
(* sensor identifiers and data frames *)

Rooms == <<1, 2, 3>>
Kinds == {"temp", "lux", "occ"}

\* f"{kind}_{room_id}"
sensor_id(kind, room_id) == kind \o "_" \o ToString(room_id)

\* code points of the characters the identifiers are made of
KindChars == [temp |-> <<116, 101, 109, 112>>,
              lux  |-> <<108, 117, 120>>,
              occ  |-> <<111, 99, 99>>]
Underscore == <<95>>

\* code points of str(n), n >= 0
RECURSIVE int_chars(_)
int_chars(n) ==
  IF n < 10 THEN <<48 + n>> ELSE int_chars(n \div 10) \o <<48 + (n % 10)>>

\* the code points of every identifier the program can format
CodePoints ==
  LET table == {<<sensor_id(k, Rooms[r]),
                  KindChars[k] \o Underscore \o int_chars(Rooms[r])>> :
                  k \in Kinds, r \in DOMAIN Rooms}
  IN  [s \in {e[1] : e \in table} |-> (CHOOSE e \in table : e[1] = s)[2]]

\* a < b for sequences of code points
RECURSIVE chars_less(_, _)
chars_less(a, b) ==
  IF b = <<>> THEN FALSE
  ELSE IF a = <<>> THEN TRUE
  ELSE IF Head(a) # Head(b) THEN Head(a) < Head(b)
  ELSE chars_less(Tail(a), Tail(b))

\* str < str
str_less(a, b) == chars_less(CodePoints[a], CodePoints[b])

\* pd.DataFrame({"timestamp": idx, "sensor_id": [sid] * len(idx), "valor": vals}):
\* a frame is its three columns
data_frame(idx, sid, vals) ==
  [timestamp |-> idx, sensor_id |-> [k \in 1..Len(idx) |-> sid], valor |-> vals]

EmptyFrame == [timestamp |-> <<>>, sensor_id |-> <<>>, valor |-> <<>>]

frame_len(f) == Len(f.timestamp)

\* pd.concat(list_of_frames, ignore_index=True)
RECURSIVE pd_concat(_)
pd_concat(fs) ==
  IF fs = <<>> THEN EmptyFrame
  ELSE LET rest == pd_concat(Tail(fs))
       IN  [timestamp |-> Head(fs).timestamp \o rest.timestamp,
            sensor_id |-> Head(fs).sensor_id \o rest.sensor_id,
            valor     |-> Head(fs).valor \o rest.valor]

\* the order of df.sort_values(["timestamp", "sensor_id"]) on rows a and b of f
row_less(f, a, b) ==
  \/ f.timestamp[a] < f.timestamp[b]
  \/ f.timestamp[a] = f.timestamp[b] /\ str_less(f.sensor_id[a], f.sensor_id[b])

\* f.iloc[order].reset_index(drop=True)
take(f, order) ==
  [timestamp |-> [k \in 1..Len(order) |-> f.timestamp[order[k]]],
   sensor_id |-> [k \in 1..Len(order) |-> f.sensor_id[order[k]]],
   valor     |-> [k \in 1..Len(order) |-> f.valor[order[k]]]]

\* mutant: the sorted frame is not assigned back
sort_values_dropped(f) == f

sort_values(f) ==
  take(f, SortSeq([k \in 1..frame_len(f) |-> k], LAMBDA a, b : row_less(f, a, b)))

\* the valor column of df_temp, df_lux and df_occ in the returned frame
temp_valor(v) == np_round(v, Round2)
lux_valor(v) == np_round(v, Round1)
occ_valor(v) == as_float(v)

\* mutant: df_lux is left out of the returned frame
room_frame_no_lux(room_id, idx, t, l, o) ==
  pd_concat(<<
    data_frame(idx, sensor_id("temp", room_id), [k \in 1..Len(t) |-> temp_valor(t[k])]),
    data_frame(idx, sensor_id("occ", room_id), [k \in 1..Len(o) |-> occ_valor(o[k])])>>)

\* lines 91-106: the frame simulate_for_room returns
room_frame(room_id, idx, t, l, o) ==
  pd_concat(<<
    data_frame(idx, sensor_id("temp", room_id), [k \in 1..Len(t) |-> temp_valor(t[k])]),
    data_frame(idx, sensor_id("lux", room_id), [k \in 1..Len(l) |-> lux_valor(l[k])]),
    data_frame(idx, sensor_id("occ", room_id), [k \in 1..Len(o) |-> occ_valor(o[k])])>>)

----------------------------------------------------------------------------
(* main and simulate_for_room, one loop iteration per step *)

SeedBase == 2025

\* the instants main may be started with, and the clock readings it may get
StartStride == 887
MaxMainStart == 3
StartArgs == {k * StartStride : k \in 0..MaxMainStart}
NowSet == {3 * MinutesPerDay + 9 * MinutesPerHour + 41, WeekMinutes + 5}

\* lines 111-113: Monday 00:00 of the week of today
monday_midnight(today) == (today \div MinutesPerDay - weekday(today)) * MinutesPerDay

NoLocals ==
  /\ time_index = <<>> /\ room = 1 /\ rng = 0
  /\ temp = <<>> /\ lux = <<>> /\ occ = <<>> /\ frames = <<>> /\ df = EmptyFrame
  /\ draw_log = <<>> /\ start_at = None /\ now = None

Init ==
  /\ pc = "main" /\ run = 1
  /\ start_arg \in StartArgs \cup {None}
  /\ days_arg = DaysOfRun
  /\ NoLocals
  /\ csv = NoFile /\ prev = NoPrev
  /\ sample = NoSample

\* lines 109-115
MainStart ==
  /\ pc = "main"
  /\ \/ /\ start_arg = None
        /\ \E n \in NowSet : n >= now /\ now' = n /\ start_at' = monday_midnight(n)
     \/ /\ start_arg # None
        /\ now' = now /\ start_at' = start_arg
  /\ time_index' = generate_time_index(start_at', days_arg)
  /\ frames' = <<>> /\ room' = 1
  /\ pc' = "rooms"
  /\ UNCHANGED <<run, start_arg, days_arg, rng, temp, lux, occ, df, csv,
                 prev, draw_log, sample>>

\* lines 119-120 and 37: the next room's call, seeding its generator
RoomCall ==
  /\ pc = "rooms" /\ room <= Len(Rooms)
  /\ rng' = default_rng(SeedBase + Rooms[room])
  /\ temp' = <<>> /\ lux' = <<>> /\ occ' = <<>> /\ draw_log' = <<>>
  /\ pc' = "temp"
  /\ UNCHANGED <<run, start_arg, start_at, now, days_arg, time_index, room,
                 frames, df, csv, prev, sample>>

\* the body of the loop of one pass
loop_body(pass, ts, d) ==
  CASE pass = "temp" -> temp_body(ts, d)
    [] pass = "lux"  -> lux_body(ts, d)
    [] pass = "occ"  -> occ_body(ts, d)

\* one iteration: the value is appended, the generator has moved on by the
\* calls made, and each call is logged with its pass and its position
iterate(pass, idx, k, acc) ==
  LET r == loop_body(pass, idx[k], draws_ahead(acc.rng, 3))
  IN  [vals |-> Append(acc.vals, r.val),
       rng  |-> rng_advance_n(acc.rng, r.used),
       log  |-> acc.log \o [j \in 1..r.used |-> <<pass, k>>]]

\* for ts in time_index: ... over the positions lo..hi, in order; the
\* iterations of the first half run before those of the second
RECURSIVE for_loop(_, _, _, _, _)
for_loop(pass, idx, lo, hi, acc) ==
  IF lo > hi THEN acc
  ELSE IF lo = hi THEN iterate(pass, idx, lo, acc)
  ELSE LET mid == (lo + hi) \div 2
           first == for_loop(pass, idx, lo, mid, acc)
       IN  \* first is evaluated in full before the second half starts
           IF Len(first.vals) = 0 THEN first
           ELSE for_loop(pass, idx, mid + 1, hi, first)

\* mutant: one loop computes the instant's temperature and illuminance
fused_iterate(idx, k, acc) ==
  LET t == iterate("temp", idx, k, [vals |-> acc.temp, rng |-> acc.rng, log |-> acc.log])
      l == iterate("lux", idx, k, [vals |-> acc.lux, rng |-> t.rng, log |-> t.log])
  IN  [temp |-> t.vals, lux |-> l.vals, rng |-> l.rng, log |-> l.log]

RECURSIVE fused_loop(_, _, _, _)
fused_loop(idx, lo, hi, acc) ==
  IF lo > hi THEN acc
  ELSE IF lo = hi THEN fused_iterate(idx, lo, acc)
  ELSE LET mid == (lo + hi) \div 2
           first == fused_loop(idx, lo, mid, acc)
       IN  IF Len(first.temp) = 0 THEN first
           ELSE fused_loop(idx, mid + 1, hi, first)

TempPass_fused ==
  /\ pc = "temp"
  /\ LET r == fused_loop(time_index, 1, Len(time_index),
                         [temp |-> <<>>, lux |-> <<>>, rng |-> rng, log |-> draw_log])
     IN  temp' = r.temp /\ lux' = r.lux /\ rng' = r.rng /\ draw_log' = r.log
  /\ pc' = "occ"
  /\ UNCHANGED <<run, start_arg, start_at, now, days_arg, time_index, room,
                 occ, frames, df, csv, prev, sample>>

\* lines 41-55
TempPass ==
  /\ pc = "temp"
  /\ LET r == for_loop("temp", time_index, 1, Len(time_index),
                       [vals |-> <<>>, rng |-> rng, log |-> draw_log])
     IN  temp' = r.vals /\ rng' = r.rng /\ draw_log' = r.log
  /\ pc' = "lux"
  /\ UNCHANGED <<run, start_arg, start_at, now, days_arg, time_index, room,
                 lux, occ, frames, df, csv, prev, sample>>

\* lines 58-67
LuxPass ==
  /\ pc = "lux"
  /\ LET r == for_loop("lux", time_index, 1, Len(time_index),
                       [vals |-> <<>>, rng |-> rng, log |-> draw_log])
     IN  lux' = r.vals /\ rng' = r.rng /\ draw_log' = r.log
  /\ pc' = "occ"
  /\ UNCHANGED <<run, start_arg, start_at, now, days_arg, time_index, room,
                 temp, occ, frames, df, csv, prev, sample>>

\* lines 70-88
OccPass ==
  /\ pc = "occ"
  /\ LET r == for_loop("occ", time_index, 1, Len(time_index),
                       [vals |-> <<>>, rng |-> rng, log |-> draw_log])
     IN  occ' = r.vals /\ rng' = r.rng /\ draw_log' = r.log
  /\ pc' = "frame"
  /\ UNCHANGED <<run, start_arg, start_at, now, days_arg, time_index, room,
                 temp, lux, frames, df, csv, prev, sample>>

\* lines 91-106 and 120: the room's frame is returned and appended
RoomReturn ==
  /\ pc = "frame"
  /\ frames' = Append(frames, room_frame(Rooms[room], time_index, temp, lux, occ))
  /\ room' = room + 1
  /\ temp' = <<>> /\ lux' = <<>> /\ occ' = <<>> /\ rng' = 0
  /\ draw_log' = <<>>
  /\ pc' = "rooms"
  /\ UNCHANGED <<run, start_arg, start_at, now, days_arg, time_index, df, csv,
                 prev, sample>>

\* line 122
Concat ==
  /\ pc = "rooms" /\ room > Len(Rooms)
  /\ df' = pd_concat(frames)
  /\ pc' = "sort"
  /\ UNCHANGED <<run, start_arg, start_at, now, days_arg, time_index, room, rng,
                 temp, lux, occ, frames, csv, prev, draw_log, sample>>

\* line 125
SortValues ==
  /\ pc = "sort"
  /\ df' = sort_values(df)
  /\ pc' = "to_csv"
  /\ UNCHANGED <<run, start_arg, start_at, now, days_arg, time_index, room, rng,
                 temp, lux, occ, frames, csv, prev, draw_log, sample>>

\* df.to_csv(path, index=False): the header line, then one line per row
to_csv(f) ==
  [header |-> <<"timestamp", "sensor_id", "valor">>,
   rows |-> [k \in 1..frame_len(f) |->
               <<f.timestamp[k], f.sensor_id[k], f.valor[k]>>]]

\* lines 126-127: the file is overwritten with the table
ToCsv ==
  /\ pc = "to_csv"
  /\ csv' = to_csv(df)
  /\ prev' = [start_at |-> prev.start_at, csv |-> csv]
  /\ pc' = "done"
  /\ UNCHANGED <<run, start_arg, start_at, now, days_arg, time_index, room, rng,
                 temp, lux, occ, frames, df, draw_log, sample>>

Next ==
  \/ MainStart \/ RoomCall \/ TempPass \/ LuxPass \/ OccPass
  \/ RoomReturn \/ Concat \/ SortValues \/ ToCsv

Spec == Init /\ [][Next]_vars

----------------------------------------------------------------------------
(* the program invoked again, after an invocation has ended *)

MaxRuns == 2

Rerun ==
  /\ pc = "done" /\ run < MaxRuns
  /\ prev' = [start_at |-> start_at, csv |-> NoFile]
  /\ run' = run + 1
  /\ pc' = "main"
  /\ start_at' = None /\ time_index' = <<>> /\ df' = EmptyFrame
  /\ frames' = <<>> /\ room' = 1
  /\ UNCHANGED <<start_arg, now, days_arg, rng, temp, lux, occ, csv, draw_log,
                 sample>>

NextTwice == Next \/ Rerun

SpecTwice == Init /\ [][NextTwice]_vars

----------------------------------------------------------------------------
(* generate_time_index on its own, for any start and day count *)

MaxDays == 8
MaxStart == 11

GridStarts == {k * StartStride : k \in 0..MaxStart}

InitGrid ==
  /\ pc = "grid" /\ run = 1
  /\ start_arg \in GridStarts
  /\ days_arg \in 0..MaxDays
  /\ NoLocals
  /\ csv = NoFile /\ prev = NoPrev
  /\ sample = NoSample

GridBuild ==
  /\ pc = "grid"
  /\ time_index' = generate_time_index(start_arg, days_arg)
  /\ pc' = "grid_done"
  /\ UNCHANGED <<run, start_arg, start_at, now, days_arg, room, rng, temp,
                 lux, occ, frames, df, csv, prev, draw_log, sample>>

NextGrid == GridBuild

SpecGrid == InitGrid /\ [][NextGrid]_vars

----------------------------------------------------------------------------
(* one loop body on its own, for any instant of the week and any outcome  *)
(* of the calls on the generator                                          *)

MaxZ == 3
ZStep == 100
ZExtreme == 900

\* standard deviates: a ladder around 0 and the two far tails
ZSet == {k * ZStep : k \in -MaxZ..MaxZ} \cup {-ZExtreme, ZExtreme}

\* uniform numbers: either side of every threshold of the occupancy model
Thresholds == {30, 50, 60, 350, 700, 850}
USet == {0, Scale - 1} \cup Thresholds \cup {p - 1 : p \in Thresholds}

NormalDraws == {[z |-> z, u |-> 0] : z \in ZSet}
UniformDraws == {[z |-> 0, u |-> u] : u \in USet}

SampleOffsets == {0, 7}
SampleInstants ==
  {t \in 0..(WeekMinutes - 1) : t % FreqMinutes \in SampleOffsets}

InitSample ==
  /\ pc = "body" /\ run = 1
  /\ start_arg = None /\ start_at = None /\ now = None
  /\ days_arg = DaysOfRun
  /\ \E t \in SampleInstants : time_index = <<t>>
  /\ room = 1 /\ rng = 0
  /\ temp = <<>> /\ lux = <<>> /\ occ = <<>> /\ frames = <<>> /\ df = EmptyFrame
  /\ draw_log = <<>>
  /\ csv = NoFile /\ prev = NoPrev
  /\ sample = NoSample

sampled(kind, ts, d, r, valor) ==
  [kind |-> kind, ts |-> ts, d |-> SubSeq(d, 1, r.used), used |-> r.used,
   raw |-> r.val, val |-> valor]

SampleTemp ==
  /\ pc = "body" /\ sample = NoSample
  /\ \E d \in [1..3 -> NormalDraws] :
       LET r == temp_body(time_index[1], d)
       IN  sample' = sampled("temp", time_index[1], d, r, temp_valor(r.val))
  /\ UNCHANGED <<pc, run, start_arg, start_at, now, days_arg, time_index, room,
                 rng, temp, lux, occ, frames, df, csv, prev, draw_log>>

SampleLux ==
  /\ pc = "body" /\ sample = NoSample
  /\ \E d \in [1..1 -> NormalDraws] :
       LET r == lux_body(time_index[1], d)
       IN  sample' = sampled("lux", time_index[1], d, r, lux_valor(r.val))
  /\ UNCHANGED <<pc, run, start_arg, start_at, now, days_arg, time_index, room,
                 rng, temp, lux, occ, frames, df, csv, prev, draw_log>>

SampleOcc ==
  /\ pc = "body" /\ sample = NoSample
  /\ \E d \in [1..2 -> UniformDraws] :
       LET r == occ_body(time_index[1], d)
       IN  sample' = sampled("occ", time_index[1], d, r, occ_valor(r.val))
  /\ UNCHANGED <<pc, run, start_arg, start_at, now, days_arg, time_index, room,
                 rng, temp, lux, occ, frames, df, csv, prev, draw_log>>

NextSample == SampleTemp \/ SampleLux \/ SampleOcc

SpecSample == InitSample /\ [][NextSample]_vars

----------------------------------------------------------------------------
(* Properties *)

C2_RowCount ==
  pc = "done" =>
    /\ Len(csv.rows) = 6048
    /\ {<<csv.rows[k][1], csv.rows[k][2]>> : k \in 1..Len(csv.rows)}
         = {start_at + 15 * k : k \in 0..671}
             \X {"temp_1", "temp_2", "temp_3", "lux_1", "lux_2", "lux_3",
                 "occ_1", "occ_2", "occ_3"}

C2_Witness ==
  /\ pc = "done" /\ start_arg # None /\ start_arg % 15 # 0
  /\ Len(csv.rows) = 6048
  /\ Len(frames) = 3

IdOrder ==
  <<"lux_1", "lux_2", "lux_3", "occ_1", "occ_2", "occ_3",
    "temp_1", "temp_2", "temp_3">>

IdRank(s) == CHOOSE j \in DOMAIN IdOrder : IdOrder[j] = s

\* C6: in the written table the instants never decrease, and the rows of one
\* instant come in the order lux_1, lux_2, lux_3, occ_1, occ_2, occ_3,
\* temp_1, temp_2, temp_3, whatever the order of generation.
C6_Sorted ==
  pc = "done" =>
    \A k \in 1..(Len(csv.rows) - 1) :
      LET a == csv.rows[k]
          b == csv.rows[k + 1]
      IN  /\ a[2] \in {IdOrder[j] : j \in DOMAIN IdOrder}
          /\ b[2] \in {IdOrder[j] : j \in DOMAIN IdOrder}
          /\ a[1] <= b[1]
          /\ (a[1] = b[1] => IdRank(a[2]) < IdRank(b[2]))

C6_Witness ==
  /\ pc = "done"
  /\ pd_concat(frames).sensor_id[1] = "temp_1"
  /\ pd_concat(frames).sensor_id[2] = "temp_1"
  /\ csv.rows[1][2] = "lux_1" /\ csv.rows[2][2] = "lux_2"
  /\ csv.rows[9][2] = "temp_3" /\ csv.rows[10][2] = "lux_1"
  /\ csv.rows[10][1] = csv.rows[1][1] + 15

\* C7: an invocation with the same start as the previous one writes the
\* same table, row for row (the seed base is the same in every invocation).
C7_Deterministic ==
  (pc = "done" /\ run >= 2 /\ prev.start_at = start_at) => csv = prev.csv

C7_Witness ==
  /\ pc = "done" /\ run = 2 /\ prev.start_at = start_at
  /\ start_arg = None
  /\ Len(csv.rows) = 6048 /\ csv = prev.csv

PassRank == [temp |-> 1, lux |-> 2, occ |-> 3]

\* C9: in one room the draws happen in the order temperature pass, then
\* illuminance pass, then occupancy pass, and inside a pass in the order of
\* the instants.
C9_DrawOrder ==
  \A k \in 1..(Len(draw_log) - 1) :
    LET a == draw_log[k]
        b == draw_log[k + 1]
    IN  \/ PassRank[a[1]] < PassRank[b[1]]
        \/ a[1] = b[1] /\ a[2] <= b[2]

C9_Witness ==
  /\ pc = "frame" /\ Len(time_index) = 672
  /\ draw_log[1] = <<"temp", 1>>
  /\ draw_log[Len(draw_log)] = <<"occ", 672>>
  /\ \E k \in 1..Len(draw_log) : draw_log[k][1] = "lux"
  /\ \E k \in 1..(Len(draw_log) - 1) :
       draw_log[k][1] = "occ" /\ draw_log[k + 1] = draw_log[k]

\* C3: every temperature value put in the frame is between 17.0 and 28.0,
\* whatever the instant and whatever the three normal draws return.
C3_TempRange ==
  sample.kind = "temp" =>
    /\ 17000 <= sample.raw /\ sample.raw <= 28000
    /\ 17000 <= sample.val /\ sample.val <= 28000

C3_Witness ==
  /\ sample.kind = "temp" /\ sample.val = 28000
  /\ sample.used = 2 /\ sample.d[1].z = 900 /\ sample.d[2].z = 900

\* C4: every illuminance value is >= 0, and at night (hour >= 22 or
\* hour < 6) it is exactly 0 and no draw is made.
C4_Lux ==
  sample.kind = "lux" =>
    /\ sample.val >= 0
    /\ (hour(sample.ts) \in {22, 23} \cup 0..5 =>
          sample.val = 0 /\ sample.used = 0)

C4_Witness ==
  /\ sample.kind = "lux" /\ sample.val = 0 /\ sample.used = 1
  /\ weekday(sample.ts) = 2 /\ hour(sample.ts) = 10
  /\ sample.d[1].z = -900

\* C5: every occupancy value is exactly 0 or 1.
C5_OccBinary ==
  sample.kind = "occ" =>
    /\ sample.raw \in {0, 1}
    /\ sample.val \in {0, 1000}

C5_Witness ==
  /\ sample.kind = "occ" /\ sample.raw = 1 /\ sample.val = 1000
  /\ sample.used = 2

\* C8: the occupancy value is 1 iff the last draw of the instant is below
\* p, where p is 0.85 / 0.35 / 0.05 on Monday-Friday by hour and 0.03 at the
\* weekend, raised to 0.7 when the instant is a weekend one with hour in
\* [10, 14) and an earlier draw is below 0.06; that earlier draw is made
\* exactly at those instants.
C8_OccSchedule ==
  sample.kind = "occ" =>
    LET h == hour(sample.ts)
        wd == weekday(sample.ts)
        window == wd \in {5, 6} /\ h \in 10..13
        p == IF wd \in 0..4
             THEN IF h \in 8..17 THEN 850
                  ELSE IF h \in {7, 18} THEN 350 ELSE 50
             ELSE IF window /\ sample.d[1].u < 60 THEN 700 ELSE 30
    IN  /\ sample.used = (IF window THEN 2 ELSE 1)
        /\ (sample.raw = 1) <=> (sample.d[sample.used].u < p)

C8_Witness ==
  /\ sample.kind = "occ" /\ weekday(sample.ts) = 6 /\ hour(sample.ts) = 13
  /\ sample.used = 2 /\ sample.d[1].u = 59 /\ sample.d[2].u = 699
  /\ sample.raw = 1

Near15 == {t \in 0..(MinutesPerDay - 1) : t % 15 = 0 /\ Abs(t - 15 * 60) <= 120}

PeakNear15 == CHOOSE v \in {daily_base(t) : t \in Near15} :
                \A t \in Near15 : daily_base(t) <= v

\* C10: the noise-free daily baseline stays within 22.5 +- 2.5 and, over
\* the quarter-hour slots of a day, no slot's baseline exceeds the highest
\* baseline found within two hours of 15:00.
C10_PeakNear15 ==
  (sample.kind = "temp" /\ sample.ts % 15 = 0) =>
    /\ 20000 <= daily_base(sample.ts) /\ daily_base(sample.ts) <= 25000
    /\ daily_base(sample.ts) <= PeakNear15

====
